---- MODULE Spec2Model ----
(***************************************************************************)
(* A model of the YouTube channel scraping pipeline: the journal files     *)
(* (videos.jsonl, transcripts.jsonl, comments.jsonl), the checkpoint scan  *)
(* load_processed_videos, the three stages of scrape_channel and the        *)
(* transcript fallback chain get_transcript -> whisper_transcribe.          *)
(***************************************************************************)
EXTENDS Integers, Sequences, FiniteSets, TLC

VARIABLES
    playlist,               \* upstream: the channel's uploads listing, newest first
    videos_jsonl,           \* output/videos.jsonl
    transcripts_jsonl,      \* output/transcripts.jsonl
    comments_jsonl,         \* output/comments.jsonl
    pc,                     \* position of the process inside scrape_channel
    runs,                   \* number of pipeline runs started so far
    skip_transcripts,       \* scrape_channel's arguments
    skip_comments,
    skip_whisper,
    video_ids,              \* main.py:125
    processed_metadata,     \* main.py:132
    processed_transcripts,  \* main.py:133
    processed_comments,     \* main.py:134
    t_i,                    \* index of the transcript loop (main.py:155)
    c_i,                    \* index of the comment loop (main.py:177)
    transcript,             \* the local of main.py:156, until it is written
    whisper_model,          \* transcripts.py:38, the module global _whisper_model
    events,                 \* the calls made for the current video, in order
    base,                   \* journal lengths when the current run loaded its sets
    prev,                   \* how the run before this one ended
    call,                   \* the last direct call into transcripts.py and its inputs
    loads,                  \* whisper.load_model calls that returned, in this process
    torn                    \* videos whose comment batch an interrupt cut short

vars == <<playlist, videos_jsonl, transcripts_jsonl, comments_jsonl, pc, runs,
          skip_transcripts, skip_comments, skip_whisper, video_ids,
          processed_metadata, processed_transcripts, processed_comments,
          t_i, c_i, transcript, whisper_model, events, base, prev, call, loads,
          torn>>

library == <<call, loads, torn>>
journals == <<videos_jsonl, transcripts_jsonl, comments_jsonl>>
args == <<skip_transcripts, skip_comments, skip_whisper>>
loaded == <<video_ids, processed_metadata, processed_transcripts, processed_comments>>

(***************************************************************************)
(* Bounds.                                                                 *)
(***************************************************************************)
MaxRuns == 2
MaxLen == 2
MaxLines == 3

Videos == {"v1", "v2"}

RECURSIVE SeqsUpTo(_, _)
SeqsUpTo(S, n) ==
    IF n = 0 THEN {<<>>}
    ELSE LET shorter == SeqsUpTo(S, n - 1)
         IN  shorter \cup {Append(s, x) : s \in {q \in shorter : Len(q) = n - 1}, x \in S}

VideoLists == SeqsUpTo(Videos, MaxLen)

IsPrefix(s, t) == Len(s) <= Len(t) /\ SubSeq(t, 1, Len(s)) = s

Count(seq, x) == Cardinality({k \in 1..Len(seq) : seq[k] = x})

Elements(seq) == {seq[k] : k \in 1..Len(seq)}

(***************************************************************************)
(* Python values.                                                          *)
(***************************************************************************)
None == [py |-> "None"]

\* truth value of an Optional[Dict]: None and the empty dict are falsy
Truthy(d) == d # None /\ DOMAIN d # {}

(***************************************************************************)
(* Journal files: a file that may not exist, holding lines. A line is the  *)
(* JSON text of one value; json_loads gives the value back or raises.      *)
(***************************************************************************)
NoFile == [exists |-> FALSE, lines |-> <<>>]

\* json.dumps of a dict: the text of a JSON object
json_dumps(data) == [text |-> "object", members |-> data]

JSONDecodeError == [py |-> "JSONDecodeError"]

\* json.loads of a line: the Python value of its text, or the error raised
json_loads(line) ==
    CASE line.text = "object" -> [type |-> "dict", items |-> line.members]
      [] line.text = "array"  -> [type |-> "list"]
      [] line.text = "string" -> [type |-> "str"]
      [] line.text = "number" -> [type |-> "int"]
      [] line.text = "null"   -> [type |-> "NoneType"]
      [] OTHER                -> JSONDecodeError

\* data['video_id'] of main.py:46 raises unless data is a dict holding the key
Subscriptable(data) ==
    /\ data # JSONDecodeError
    /\ data.type = "dict"
    /\ "video_id" \in DOMAIN data.items

\* main.py:42-48: the file is decoded as UTF-8 while it is iterated, outside
\* the try; json.loads and the subscript are inside it
RECURSIVE ScanLines(_, _)
ScanLines(lines, video_ids_acc) ==
    IF lines = <<>> THEN [raised |-> FALSE, video_ids |-> video_ids_acc]
    ELSE IF Head(lines).text = "undecodable"
    THEN [raised |-> TRUE, video_ids |-> video_ids_acc]
    ELSE LET data == json_loads(Head(lines))
         IN  IF Subscriptable(data)
             THEN ScanLines(Tail(lines), video_ids_acc \cup {data.items.video_id})
             ELSE ScanLines(Tail(lines), video_ids_acc)

\* a scan that looks for the journal in the wrong place
load_processed_videos_wrong_path(file) == [raised |-> FALSE, video_ids |-> {}]

\* load_processed_videos: the set returned, or the UnicodeDecodeError raised
load_processed_videos(file) ==
    IF file.exists THEN ScanLines(file.lines, {}) ELSE [raised |-> FALSE, video_ids |-> {}]

append_jsonl(file, data) ==
    [exists |-> TRUE, lines |-> Append(file.lines, json_dumps(data))]

RECURSIVE DumpAll(_)
DumpAll(data_list) ==
    IF data_list = <<>> THEN <<>>
    ELSE <<json_dumps(Head(data_list))>> \o DumpAll(Tail(data_list))

\* a batch write that opens the file with mode 'w'
append_jsonl_batch_truncating(file, data_list) ==
    IF data_list = <<>> THEN file
    ELSE [exists |-> TRUE, lines |-> DumpAll(data_list)]

append_jsonl_batch(file, data_list) ==
    IF data_list = <<>> THEN file
    ELSE [exists |-> TRUE, lines |-> file.lines \o DumpAll(data_list)]

(***************************************************************************)
(* transcripts.py: the caption fetcher.                                     *)
(***************************************************************************)
\* what api.fetch(video_id, languages=['en']) can answer with
CaptionSegmentLists ==
    { <<>>, <<[start |-> 0, duration |-> 2, text |-> <<"h", "i">>]>> }

TerminalAbsenceErrors == {"TranscriptsDisabled", "NoTranscriptFound", "VideoUnavailable"}
TransientBlockErrors == {"TooManyRequests", "RequestBlocked", "IpBlocked"}

\* str(e) of an error of no recognised type, as its words
ErrorTexts ==
    { <<"HTTP", "429">>, <<"Too Many Requests">>, <<"too many requests">>,
      <<"IP", "Blocked">>, <<"Request", "blocked">>, <<"timed", "out">> }

Lower(word) == IF word = "Blocked" THEN "blocked" ELSE word

Contains(text, word) == \E k \in 1..Len(text) : text[k] = word
ContainsLower(text, word) == \E k \in 1..Len(text) : Lower(text[k]) = word

CaptionOutcomes ==
    {[kind |-> "ok", segments |-> segs, exc |-> "", msg |-> <<>>] : segs \in CaptionSegmentLists}
    \cup {[kind |-> "raise", segments |-> <<>>, exc |-> e, msg |-> <<>>] :
            e \in TerminalAbsenceErrors \cup TransientBlockErrors}
    \cup {[kind |-> "raise", segments |-> <<>>, exc |-> "Exception", msg |-> m] : m \in ErrorTexts}

\* transcripts.py:82-86: the attribute, else seg.get(key, default)
FormatCaptionSegment(seg) ==
    [start    |-> IF "start" \in DOMAIN seg THEN seg.start ELSE 0,
     duration |-> IF "duration" \in DOMAIN seg THEN seg.duration ELSE 0,
     text     |-> IF "text" \in DOMAIN seg THEN seg.text ELSE <<>>]

FormatCaptionSegments(segments) ==
    [k \in 1..Len(segments) |-> FormatCaptionSegment(segments[k])]

\* the message test of transcripts.py:101
LooksBlocked(msg) ==
    \/ Contains(msg, "429")
    \/ Contains(msg, "Too Many Requests")
    \/ ContainsLower(msg, "blocked")

CaptionRecord(video_id, segments) ==
    [video_id |-> video_id,
     transcript_source |-> "youtube_captions",
     segments |-> FormatCaptionSegments(segments)]

\* a fetcher without the typed clause of transcripts.py:96-99: only the text of
\* an error can make it pause
get_transcript_sleeps_on_text_only(video_id, outcome) ==
    IF outcome.kind = "ok"
    THEN [ret |-> CaptionRecord(video_id, outcome.segments), caught |-> "Success",
          slept |-> FALSE, raised |-> FALSE]
    ELSE IF outcome.exc \in TerminalAbsenceErrors
    THEN [ret |-> None, caught |-> "TerminalAbsence", slept |-> FALSE, raised |-> FALSE]
    ELSE [ret |-> None, caught |-> "Exception",
          slept |-> LooksBlocked(outcome.msg), raised |-> FALSE]

\* a fetcher without the last clause of transcripts.py:100-103: an error of no
\* recognised type leaves the function
get_transcript_without_catch_all(video_id, outcome) ==
    IF outcome.kind = "ok"
    THEN [ret |-> CaptionRecord(video_id, outcome.segments), caught |-> "Success",
          slept |-> FALSE, raised |-> FALSE]
    ELSE IF outcome.exc \in TerminalAbsenceErrors
    THEN [ret |-> None, caught |-> "TerminalAbsence", slept |-> FALSE, raised |-> FALSE]
    ELSE IF outcome.exc \in TransientBlockErrors
    THEN [ret |-> None, caught |-> "TransientBlock", slept |-> TRUE, raised |-> FALSE]
    ELSE [ret |-> None, caught |-> "Exception", slept |-> FALSE, raised |-> TRUE]

\* a fetcher that pauses on every error, terminal absence included
get_transcript_always_sleeps(video_id, outcome) ==
    IF outcome.kind = "ok"
    THEN [ret |-> CaptionRecord(video_id, outcome.segments), caught |-> "Success", slept |-> FALSE,
          raised |-> FALSE]
    ELSE IF outcome.exc \in TerminalAbsenceErrors
    THEN [ret |-> None, caught |-> "TerminalAbsence", slept |-> TRUE,
          raised |-> FALSE]
    ELSE IF outcome.exc \in TransientBlockErrors
    THEN [ret |-> None, caught |-> "TransientBlock", slept |-> TRUE,
          raised |-> FALSE]
    ELSE [ret |-> None, caught |-> "Exception", slept |-> TRUE,
          raised |-> FALSE]

\* get_transcript: the value returned, the clause that ended the call and
\* whether time.sleep(60) ran
get_transcript(video_id, outcome) ==
    IF outcome.kind = "ok"
    THEN [ret |-> CaptionRecord(video_id, outcome.segments), caught |-> "Success", slept |-> FALSE,
          raised |-> FALSE]
    ELSE IF outcome.exc \in TerminalAbsenceErrors
    THEN [ret |-> None, caught |-> "TerminalAbsence", slept |-> FALSE,
          raised |-> FALSE]
    ELSE IF outcome.exc \in TransientBlockErrors
    THEN [ret |-> None, caught |-> "TransientBlock", slept |-> TRUE,
          raised |-> FALSE]
    ELSE [ret |-> None, caught |-> "Exception",
          slept |-> LooksBlocked(outcome.msg), raised |-> FALSE]

GetTranscriptEvents(r) ==
    <<"get_transcript", r.caught>> \o (IF r.slept THEN <<"sleep60">> ELSE <<>>)

(***************************************************************************)
(* transcripts.py: audio download, model and transcription.                *)
(***************************************************************************)
\* os.path.join(output_dir, video_id + ".mp3")
AudioPath(video_id) == [py |-> "path", name |-> video_id]

\* what ydl.download can do: leave the mp3 in place, return without it, or raise
DownloadOutcomes == {"ok", "missing", "raise"}

\* download_audio: the path of the file, or None when it is absent or the
\* download raised
download_audio(video_id, outcome) ==
    IF outcome = "ok"
    THEN [ret |-> AudioPath(video_id), raised |-> FALSE]
    ELSE [ret |-> None, raised |-> FALSE]

ModelNames == {"tiny", "base"}

WhisperModelOf(model_name) == [py |-> "whisper.model", name |-> model_name]

\* the characters str.strip() removes
Whitespace == {" ", "\t", "\n"}

RECURSIVE LStrip(_)
LStrip(text) ==
    IF text # <<>> /\ Head(text) \in Whitespace THEN LStrip(Tail(text)) ELSE text

RECURSIVE RStrip(_)
RStrip(text) ==
    IF text # <<>> /\ text[Len(text)] \in Whitespace
    THEN RStrip(SubSeq(text, 1, Len(text) - 1)) ELSE text

Strip(text) == RStrip(LStrip(text))

\* a conversion that stores the end time where the duration belongs
FormatWhisperSegment_keeps_end(seg) ==
    [start |-> seg.start, duration |-> seg.end, text |-> Strip(seg.text)]

\* transcripts.py:182-186
FormatWhisperSegment(seg) ==
    [start |-> seg.start, duration |-> seg.end - seg.start, text |-> Strip(seg.text)]

FormatWhisperSegments(segments) ==
    [k \in 1..Len(segments) |-> FormatWhisperSegment(segments[k])]

\* what model.transcribe(audio_path) can give back
TranscribeResults ==
    { [segments |-> <<>>, language |-> "en"],
      [segments |-> <<[start |-> 1, end |-> 3, text |-> <<" ", "h", "i", " ">>]>>],
      [language |-> "en"] }

\* the faults and results of one fallback attempt: each step succeeds or fails,
\* and the steps after a failed one are never asked
WhisperOutcomes ==
    {[mkdtemp |-> "raise", download |-> "-", load_model |-> "-", transcribe |-> [kind |-> "-"]]}
    \cup {[mkdtemp |-> "ok", download |-> d, load_model |-> "-", transcribe |-> [kind |-> "-"]] :
            d \in {"missing", "raise"}}
    \cup {[mkdtemp |-> "ok", download |-> "ok", load_model |-> "raise", transcribe |-> [kind |-> "-"]]}
    \cup {[mkdtemp |-> "ok", download |-> "ok", load_model |-> "ok", transcribe |-> t] :
            t \in {[kind |-> "raise"]} \cup {[kind |-> "ok", result |-> r] : r \in TranscribeResults}}

\* transcripts.py:198-208, reached with temp_audio set and the audio file present
CleanupEvents == <<"os.remove", "os.rmdir">>

WhisperModel == WhisperModelOf("base")

\* get_whisper_model: loads only while the global is None
LoadEvents(model) == IF model = None THEN <<"load_model">> ELSE <<>>

\* a getter that loads the requested size on every call
get_whisper_model_reloads(model, model_name, load) ==
    IF load = "ok"
    THEN [ret |-> WhisperModelOf(model_name), model |-> WhisperModelOf(model_name),
          events |-> <<"load_model">>, raised |-> FALSE]
    ELSE [ret |-> None, model |-> model, events |-> <<"load_model:raise">>, raised |-> TRUE]

\* get_whisper_model: the instance returned, the module global afterwards and
\* whether whisper.load_model ran (and raised)
get_whisper_model(model, model_name, load) ==
    IF model # None
    THEN [ret |-> model, model |-> model, events |-> LoadEvents(model), raised |-> FALSE]
    ELSE IF load = "ok"
    THEN [ret |-> WhisperModelOf(model_name), model |-> WhisperModelOf(model_name),
          events |-> LoadEvents(model), raised |-> FALSE]
    ELSE [ret |-> None, model |-> None, events |-> <<"load_model:raise">>, raised |-> TRUE]

WhisperRecord(video_id, result) ==
    [video_id |-> video_id,
     transcript_source |-> "whisper",
     language |-> IF "language" \in DOMAIN result THEN result.language ELSE "unknown",
     segments |-> FormatWhisperSegments(result.segments)]

\* the steps of whisper_transcribe up to the download
WhisperPrefix(o) ==
    <<"whisper_transcribe", "mkdtemp",
      IF o.download = "ok" THEN "download_audio"
      ELSE IF o.download = "missing" THEN "download_audio:missing"
      ELSE "download_audio:raise">>

\* a fallback that asks for the model before it looks at the download's result
whisper_transcribe_loads_first(video_id, model_name, model, o) ==
    IF o.mkdtemp # "ok"
    THEN [ret |-> None, model |-> model, raised |-> FALSE,
          events |-> <<"whisper_transcribe", "mkdtemp:raise">>]
    ELSE LET m == get_whisper_model(model, model_name, "ok")
         IN  [ret |-> None, model |-> m.model, raised |-> FALSE,
              events |-> WhisperPrefix(o) \o m.events \o CleanupEvents]

\* a fallback whose cleanup stands at the end of the try block, not in a finally
whisper_transcribe_cleans_on_success_only(video_id, model_name, model, o) ==
    IF o.mkdtemp # "ok"
    THEN [ret |-> None, model |-> model, raised |-> FALSE,
          events |-> <<"whisper_transcribe", "mkdtemp:raise">>]
    ELSE IF download_audio(video_id, o.download).ret = None
    THEN [ret |-> None, model |-> model, raised |-> FALSE, events |-> WhisperPrefix(o)]
    ELSE LET m == get_whisper_model(model, model_name, o.load_model)
         IN  IF m.raised
             THEN [ret |-> None, model |-> m.model, raised |-> FALSE,
                   events |-> WhisperPrefix(o) \o m.events]
             ELSE IF o.transcribe.kind # "ok"
             THEN [ret |-> None, model |-> m.model, raised |-> FALSE,
                   events |-> WhisperPrefix(o) \o m.events \o <<"transcribe:raise">>]
             ELSE IF "segments" \notin DOMAIN o.transcribe.result
             THEN [ret |-> None, model |-> m.model, raised |-> FALSE,
                   events |-> WhisperPrefix(o) \o m.events \o <<"transcribe", "KeyError">>]
             ELSE [ret |-> WhisperRecord(video_id, o.transcribe.result),
                   model |-> m.model, raised |-> FALSE,
                   events |-> WhisperPrefix(o) \o m.events \o <<"transcribe">>
                              \o CleanupEvents]

\* whisper_transcribe(video_id, model_name=...) with audio_path None: the value
\* returned, the calls made and the module global afterwards
whisper_transcribe(video_id, model_name, model, o) ==
    IF o.mkdtemp # "ok"
    THEN [ret |-> None, model |-> model, raised |-> FALSE,
          events |-> <<"whisper_transcribe", "mkdtemp:raise">>]
    ELSE IF download_audio(video_id, o.download).ret = None
    THEN [ret |-> None, model |-> model, raised |-> FALSE, events |-> WhisperPrefix(o)]
    ELSE LET m == get_whisper_model(model, model_name, o.load_model)
         IN  IF m.raised
             THEN [ret |-> None, model |-> m.model, raised |-> FALSE,
                   events |-> WhisperPrefix(o) \o m.events \o CleanupEvents]
             ELSE IF o.transcribe.kind # "ok"
             THEN [ret |-> None, model |-> m.model, raised |-> FALSE,
                   events |-> WhisperPrefix(o) \o m.events \o <<"transcribe:raise">>
                              \o CleanupEvents]
             ELSE IF "segments" \notin DOMAIN o.transcribe.result
             THEN [ret |-> None, model |-> m.model, raised |-> FALSE,
                   events |-> WhisperPrefix(o) \o m.events \o <<"transcribe", "KeyError">>
                              \o CleanupEvents]
             ELSE [ret |-> WhisperRecord(video_id, o.transcribe.result),
                   model |-> m.model, raised |-> FALSE,
                   events |-> WhisperPrefix(o) \o m.events \o <<"transcribe">>
                              \o CleanupEvents]

\* an orchestrator that drops the fallback's result
get_transcript_with_fallback_drops_result(video_id, force_whisper, model, co, wo) ==
    LET c == get_transcript(video_id, co)
        w == whisper_transcribe(video_id, "base", model, wo)
    IN  IF ~force_whisper /\ Truthy(c.ret)
        THEN [ret |-> c.ret, model |-> model, events |-> GetTranscriptEvents(c),
              raised |-> FALSE]
        ELSE IF ~force_whisper
        THEN [ret |-> None, model |-> w.model, raised |-> FALSE,
              events |-> GetTranscriptEvents(c) \o w.events]
        ELSE [ret |-> None, model |-> w.model, events |-> w.events, raised |-> FALSE]

\* an orchestrator that asks for captions whatever force_whisper says
get_transcript_with_fallback_ignores_force(video_id, force_whisper, model, co, wo) ==
    LET c == get_transcript(video_id, co)
        w == whisper_transcribe(video_id, "base", model, wo)
    IN  IF Truthy(c.ret)
        THEN [ret |-> c.ret, model |-> model, events |-> GetTranscriptEvents(c),
              raised |-> FALSE]
        ELSE [ret |-> w.ret, model |-> w.model, raised |-> w.raised,
              events |-> GetTranscriptEvents(c) \o w.events]

\* get_transcript_with_fallback: captions first unless forced, then Whisper
get_transcript_with_fallback(video_id, force_whisper, model, co, wo) ==
    LET c == get_transcript(video_id, co)
        w == whisper_transcribe(video_id, "base", model, wo)
    IN  IF ~force_whisper /\ c.raised
        THEN [ret |-> None, model |-> model, events |-> GetTranscriptEvents(c),
              raised |-> TRUE]
        ELSE IF ~force_whisper /\ Truthy(c.ret)
        THEN [ret |-> c.ret, model |-> model, events |-> GetTranscriptEvents(c),
              raised |-> FALSE]
        ELSE IF ~force_whisper
        THEN [ret |-> w.ret, model |-> w.model, raised |-> w.raised,
              events |-> GetTranscriptEvents(c) \o w.events]
        ELSE [ret |-> w.ret, model |-> w.model, events |-> w.events, raised |-> w.raised]

\* a loop body that goes through the orchestrator whatever skip_whisper says
Attempt_always_falls_back(video_id, skip_w, model, co, wo) ==
    get_transcript_with_fallback(video_id, FALSE, model, co, wo)

\* main.py:156: the call made for a video under skip_whisper
Attempt(video_id, skip_w, model, co, wo) ==
    IF ~skip_w
    THEN get_transcript_with_fallback(video_id, FALSE, model, co, wo)
    ELSE LET c == get_transcript(video_id, co)
         IN  [ret |-> c.ret, model |-> model, events |-> GetTranscriptEvents(c),
              raised |-> c.raised]

(***************************************************************************)
(* youtube_api.py and comments.py: the collaborators of the other stages.  *)
(***************************************************************************)
Metadata(video_id) ==
    [video_id |-> video_id, title |-> "t", published_at |-> "p", duration |-> "PT1M",
     viewCount |-> 0, likeCount |-> 0, commentCount |-> 0]

\* what videos().list can do for a batch: answer for the videos in `found`,
\* fail with an HttpError (each video is then asked for alone), or fail otherwise
MetadataOutcomes ==
    {[kind |-> k, found |-> f] : k \in {"ok", "HttpError"}, f \in SUBSET Videos}
    \cup {[kind |-> "Exception", found |-> {}]}

RECURSIVE MetadataOf(_, _)
MetadataOf(batch, found) ==
    IF batch = <<>> THEN <<>>
    ELSE (IF Head(batch) \in found THEN <<Metadata(Head(batch))>> ELSE <<>>)
         \o MetadataOf(Tail(batch), found)

\* a batch function that returns a marker for every video it has no metadata for
get_video_metadata_batch_with_marker(ids, o) ==
    [k \in 1..Len(ids) |->
        IF o.kind # "Exception" /\ ids[k] \in o.found THEN Metadata(ids[k])
        ELSE [video_id |-> ids[k]]]

get_video_metadata_batch(ids, o) ==
    IF o.kind = "Exception" THEN <<>> ELSE MetadataOf(ids, o.found)

\* the requests get_video_metadata_batch makes for one batch: the batch request
\* and, after an HttpError, one get_video_metadata call per video of the batch
MetadataRequests(ids, o) ==
    IF o.kind = "ok" THEN <<"videos.list">>
    ELSE IF o.kind = "HttpError"
    THEN <<"videos.list:HttpError">> \o [k \in 1..Len(ids) |-> "get_video_metadata"]
    ELSE <<"videos.list:raise">>

\* the pages commentThreads().list can answer with
OkPage(n, more) ==
    [kind |-> "ok", items |-> [k \in 1..n |-> [textDisplay |-> "c"]], more |-> more]

\* what HttpError.error_details can be: the list of error dicts of a JSON error
\* body, nothing, or the text of a body that is not such a JSON document
ErrorDetails == {"list", "empty", "text"}

ErrorPageOf(exc, details) ==
    [kind |-> "raise", items |-> <<>>, more |-> FALSE, exc |-> exc, details |-> details]

ErrorPage == ErrorPageOf("HttpError", "list")

ErrorPages ==
    {ErrorPageOf("HttpError", d) : d \in ErrorDetails} \cup {ErrorPageOf("Exception", "empty")}

CommentPageRuns ==
    { <<OkPage(0, FALSE)>>, <<OkPage(1, FALSE)>>, <<OkPage(1, TRUE), OkPage(1, FALSE)>> }
    \cup {<<e>> : e \in ErrorPages}
    \cup {<<OkPage(1, TRUE), e>> : e \in ErrorPages}

\* a str in a field that can also hold None
Str(s) == [py |-> "str", value |-> s]

CommentData(video_id, item) ==
    [video_id |-> video_id, comment_text |-> Str(item.textDisplay),
     author_name |-> Str("a"), like_count |-> 0, published_at |-> Str("p")]

\* comments.py:54: e.error_details[0].get('reason', '') if e.error_details else ''
\* raises AttributeError when error_details is a non-empty str
ErrorReasonRaises(details) == details = "text"

\* comments.py:53-59: whether the handler of the error of a page request raises
HandlerRaises(page) == page.exc = "HttpError" /\ ErrorReasonRaises(page.details)

RECURSIVE FetchPages(_, _, _)
FetchPages(video_id, pages, comments) ==
    IF pages = <<>> \/ Head(pages).kind = "raise" THEN <<>>
    ELSE LET page == Head(pages)
             more == comments \o [k \in 1..Len(page.items) |->
                                    CommentData(video_id, page.items[k])]
         IN  IF page.more THEN FetchPages(video_id, Tail(pages), more) ELSE more

\* the page requests of one get_all_comments call, up to the first that fails
RECURSIVE PageRequests(_)
PageRequests(pages) ==
    IF pages = <<>> THEN <<>>
    ELSE IF Head(pages).kind = "raise"
    THEN <<"commentThreads.list:raise">>
         \o (IF HandlerRaises(Head(pages)) THEN <<"AttributeError">> ELSE <<>>)
    ELSE <<"commentThreads.list">>
         \o (IF Head(pages).more THEN PageRequests(Tail(pages)) ELSE <<>>)

\* get_all_comments: the list returned, whether the call raised instead, and
\* the page requests it made
get_all_comments(video_id, pages) ==
    [ret |-> FetchPages(video_id, pages, <<>>),
     raised |-> Count(PageRequests(pages), "AttributeError") > 0,
     events |-> PageRequests(pages)]

NoComments(video_id) ==
    [video_id |-> video_id, comment_text |-> None, author_name |-> None,
     like_count |-> 0, published_at |-> None]

(***************************************************************************)
(* main.py: scrape_channel.                                                *)
(***************************************************************************)
FailedRecord(video_id) ==
    [video_id |-> video_id, transcript_source |-> "failed", segments |-> <<>>]

RECURSIVE NotIn(_, _)
NotIn(ids, processed) ==
    IF ids = <<>> THEN <<>>
    ELSE (IF Head(ids) \notin processed THEN <<Head(ids)>> ELSE <<>>)
         \o NotIn(Tail(ids), processed)

\* a comment stage that does not filter the list
videos_needing_comments_unfiltered == video_ids

videos_needing_metadata == NotIn(video_ids, processed_metadata)
videos_needing_transcripts == NotIn(video_ids, processed_transcripts)
videos_needing_comments == NotIn(video_ids, processed_comments)

Lengths == [videos |-> Len(videos_jsonl.lines),
            transcripts |-> Len(transcripts_jsonl.lines),
            comments |-> Len(comments_jsonl.lines)]

Stopped == {"idle", "returned", "raised", "interrupted", "done"}

\* no direct call has been made
NoCall == [fn |-> "-", n |-> 0]

\* what get_recent_videos returns for a listing of one page: the listing, or
\* nothing when the playlist lookup or the page request fails
Discovered(listing) == {listing, <<>>}

Init ==
    /\ playlist \in VideoLists
    /\ videos_jsonl = NoFile
    /\ transcripts_jsonl = NoFile
    /\ comments_jsonl = NoFile
    /\ pc = "idle"
    /\ runs = 0
    /\ skip_transcripts \in BOOLEAN
    /\ skip_comments \in BOOLEAN
    /\ skip_whisper \in BOOLEAN
    /\ video_ids = <<>>
    /\ processed_metadata = {}
    /\ processed_transcripts = {}
    /\ processed_comments = {}
    /\ t_i = 1
    /\ c_i = 1
    /\ transcript = None
    /\ whisper_model = None
    /\ events = <<>>
    /\ base = [videos |-> 0, transcripts |-> 0, comments |-> 0]
    /\ prev = "idle"
    /\ call = NoCall
    /\ loads = 0
    /\ torn = {}

\* the stage entered once the transcript stage is over (main.py:172-175)
AfterTranscripts(needing_comments, skip_c) ==
    IF ~skip_c /\ needing_comments # <<>> THEN "comments" ELSE "done"

\* a stage switch that does not look at skip_transcripts and skip_comments
AfterMetadata_ignores_skips(needing_transcripts, needing_comments, skip_t, skip_c) ==
    IF needing_transcripts # <<>> THEN "transcripts"
    ELSE IF needing_comments # <<>> THEN "comments" ELSE "done"

\* the stage entered once the metadata stage is over (main.py:150-153)
AfterMetadata(needing_transcripts, needing_comments, skip_t, skip_c) ==
    IF ~skip_t /\ needing_transcripts # <<>> THEN "transcripts"
    ELSE AfterTranscripts(needing_comments, skip_c)

\* one of the scans of main.py:132-134 raises, and scrape_channel with it
ScanRaises ==
    \/ load_processed_videos(videos_jsonl).raised
    \/ load_processed_videos(transcripts_jsonl).raised
    \/ load_processed_videos(comments_jsonl).raised

\* main.py:109-134: discovery, then the three checkpoint scans
StartRun ==
    /\ pc \in Stopped
    /\ runs < MaxRuns
    /\ \E ids \in Discovered(playlist) :
        /\ video_ids' = ids
        /\ pc' = IF ids = <<>> THEN "returned"
                 ELSE IF ScanRaises THEN "raised" ELSE "metadata"
    /\ runs' = runs + 1
    /\ prev' = pc
    /\ processed_metadata' = load_processed_videos(videos_jsonl).video_ids
    /\ processed_transcripts' = load_processed_videos(transcripts_jsonl).video_ids
    /\ processed_comments' = load_processed_videos(comments_jsonl).video_ids
    /\ base' = Lengths
    /\ t_i' = 1
    /\ c_i' = 1
    /\ transcript' = None
    /\ whisper_model' = None
    /\ loads' = 0
    /\ events' = <<>>
    /\ UNCHANGED <<playlist, journals, args, call, torn>>

\* main.py:136-147
MetadataStage ==
    /\ pc = "metadata"
    /\ IF videos_needing_metadata # <<>>
       THEN \E o \in MetadataOutcomes :
                /\ videos_jsonl' = append_jsonl_batch(videos_jsonl,
                                       get_video_metadata_batch(videos_needing_metadata, o))
                /\ events' = MetadataRequests(videos_needing_metadata, o)
       ELSE UNCHANGED <<videos_jsonl, events>>
    /\ pc' = AfterMetadata(videos_needing_transcripts, videos_needing_comments,
                           skip_transcripts, skip_comments)
    /\ UNCHANGED <<playlist, transcripts_jsonl, comments_jsonl, runs, args, loaded,
                   t_i, c_i, transcript, whisper_model, base, prev, library>>

\* main.py:156: the attempt for the video at t_i
TranscriptAttempt ==
    /\ pc = "transcripts"
    /\ \E co \in CaptionOutcomes, wo \in WhisperOutcomes :
         LET r == Attempt(videos_needing_transcripts[t_i], skip_whisper, whisper_model, co, wo)
         IN  /\ transcript' = r.ret
             /\ whisper_model' = r.model
             /\ loads' = loads + Count(r.events, "load_model")
             /\ events' = r.events
             /\ pc' = IF r.raised THEN "raised" ELSE "append"
    /\ UNCHANGED <<playlist, journals, runs, args, loaded, t_i, c_i, base, prev, call,
                   torn>>

\* a loop body without the else branch: nothing is written for a failed attempt
WriteTranscriptNoMarker(file, video_id, result) ==
    IF Truthy(result) THEN append_jsonl(file, result) ELSE file

\* main.py:157-165: the journal after the write for the attempt's result
WriteTranscript(file, video_id, result) ==
    IF Truthy(result)
    THEN append_jsonl(file, result)
    ELSE append_jsonl(file, FailedRecord(video_id))

\* a transcript loop body without the pause of main.py:167
TranscriptAppend_without_sleep ==
    /\ pc = "append"
    /\ transcripts_jsonl' = WriteTranscript(transcripts_jsonl,
                                videos_needing_transcripts[t_i], transcript)
    /\ transcript' = None
    /\ events' = events \o <<"append_jsonl">>
    /\ IF t_i < Len(videos_needing_transcripts)
       THEN /\ t_i' = t_i + 1
            /\ pc' = "transcripts"
       ELSE /\ t_i' = t_i
            /\ pc' = AfterTranscripts(videos_needing_comments, skip_comments)
    /\ UNCHANGED <<playlist, videos_jsonl, comments_jsonl, runs, args, loaded, c_i,
                   whisper_model, base, prev, library>>

\* main.py:157-167: the append, the pause and the step to the next video
TranscriptAppend ==
    /\ pc = "append"
    /\ transcripts_jsonl' = WriteTranscript(transcripts_jsonl,
                                videos_needing_transcripts[t_i], transcript)
    /\ transcript' = None
    /\ events' = events \o <<"append_jsonl", "sleep1.5">>
    /\ IF t_i < Len(videos_needing_transcripts)
       THEN /\ t_i' = t_i + 1
            /\ pc' = "transcripts"
       ELSE /\ t_i' = t_i
            /\ pc' = AfterTranscripts(videos_needing_comments, skip_comments)
    /\ UNCHANGED <<playlist, videos_jsonl, comments_jsonl, runs, args, loaded, c_i,
                   whisper_model, base, prev, library>>

\* main.py:177-192: one video of the comment stage; an error that leaves
\* get_all_comments leaves scrape_channel too
CommentStep ==
    /\ pc = "comments"
    /\ \E pages \in CommentPageRuns :
         LET video_id == videos_needing_comments[c_i]
             r == get_all_comments(video_id, pages)
         IN  IF r.raised
             THEN /\ UNCHANGED <<comments_jsonl, c_i>>
                  /\ events' = <<"get_all_comments">> \o r.events
                  /\ pc' = "raised"
             ELSE /\ comments_jsonl' =
                        IF r.ret # <<>>
                        THEN append_jsonl_batch(comments_jsonl, r.ret)
                        ELSE append_jsonl(comments_jsonl, NoComments(video_id))
                  /\ events' = <<"get_all_comments">> \o r.events
                                  \o <<"append_jsonl", "sleep0.5">>
                  /\ IF c_i < Len(videos_needing_comments)
                     THEN /\ c_i' = c_i + 1
                          /\ pc' = "comments"
                     ELSE /\ c_i' = c_i
                          /\ pc' = "done"
    /\ UNCHANGED <<playlist, videos_jsonl, transcripts_jsonl, runs, args, loaded, t_i,
                   transcript, whisper_model, base, prev, library>>

\* main.py:84-86 cut short: the process is killed inside append_jsonl_batch of
\* the comment stage, after some of the video's lines are in the file and
\* before the last one is
CommentBatchInterrupted ==
    /\ pc = "comments"
    /\ \E pages \in CommentPageRuns :
         LET video_id == videos_needing_comments[c_i]
             r == get_all_comments(video_id, pages)
         IN  /\ ~r.raised
             /\ Len(r.ret) > 1
             /\ \E k \in 1..(Len(r.ret) - 1) :
                  comments_jsonl' = append_jsonl_batch(comments_jsonl, SubSeq(r.ret, 1, k))
             /\ events' = <<"get_all_comments">> \o r.events \o <<"append_jsonl">>
             /\ torn' = torn \cup {video_id}
    /\ pc' = "interrupted"
    /\ UNCHANGED <<playlist, videos_jsonl, transcripts_jsonl, runs, args, loaded, t_i, c_i,
                   transcript, whisper_model, base, prev, call, loads>>

\* the process is killed between two operations of a run
Interrupt ==
    /\ pc \notin Stopped
    /\ pc' = "interrupted"
    /\ UNCHANGED <<playlist, journals, runs, args, loaded, t_i, c_i, transcript,
                   whisper_model, events, base, prev, library>>

Next ==
    \/ StartRun
    \/ MetadataStage
    \/ TranscriptAttempt
    \/ TranscriptAppend
    \/ CommentStep
    \/ CommentBatchInterrupted
    \/ Interrupt

Spec == Init /\ [][Next]_vars

TypeOK ==
    /\ playlist \in VideoLists
    /\ pc \in Stopped \cup {"metadata", "transcripts", "append", "comments"}
    /\ runs \in 0..MaxRuns
    /\ video_ids \in Discovered(playlist)

(***************************************************************************)
(* The checkpoint scan alone, over journals of any content.                *)
(***************************************************************************)
\* the lines a journal file can hold, well-formed or not
JournalLines ==
    { json_dumps(FailedRecord("v1")), json_dumps(Metadata("v2")),
      [text |-> "object", members |-> [title |-> "t"]],
      [text |-> "array"], [text |-> "string"], [text |-> "number"], [text |-> "null"],
      [text |-> "invalid"], [text |-> "blank"], [text |-> "undecodable"] }

JournalFiles ==
    {NoFile} \cup {[exists |-> TRUE, lines |-> l] : l \in SeqsUpTo(JournalLines, MaxLines)}

InitLoad ==
    /\ playlist = <<>>
    /\ videos_jsonl = NoFile
    /\ transcripts_jsonl \in JournalFiles
    /\ comments_jsonl = NoFile
    /\ pc = "idle"
    /\ runs = 0
    /\ skip_transcripts = FALSE
    /\ skip_comments = FALSE
    /\ skip_whisper = TRUE
    /\ video_ids = <<>>
    /\ processed_metadata = {}
    /\ processed_transcripts = {}
    /\ processed_comments = {}
    /\ t_i = 1
    /\ c_i = 1
    /\ transcript = None
    /\ whisper_model = None
    /\ events = <<>>
    /\ base = [videos |-> 0, transcripts |-> 0, comments |-> 0]
    /\ prev = "idle"
    /\ call = NoCall
    /\ loads = 0
    /\ torn = {}

\* main.py:133 on its own
LoadStep ==
    /\ pc = "idle"
    /\ processed_transcripts' = load_processed_videos(transcripts_jsonl).video_ids
    /\ pc' = IF load_processed_videos(transcripts_jsonl).raised THEN "raised" ELSE "loaded"
    /\ UNCHANGED <<playlist, journals, runs, args, video_ids, processed_metadata,
                   processed_comments, t_i, c_i, transcript, whisper_model, events,
                   base, prev, library>>

NextLoad == LoadStep

SpecLoad == InitLoad /\ [][NextLoad]_vars

(***************************************************************************)
(* transcripts.py called directly: one process, a few calls in a row, the  *)
(* module global _whisper_model kept from call to call.                    *)
(***************************************************************************)
MaxCalls == 2

\* further answers of model.transcribe: spans out of time order, tabs and
\* newlines around the words, blanks inside them, no language key
MoreTranscribeResults ==
    { [segments |-> << [start |-> 4, end |-> 6, text |-> <<"\t", "b", " ">>],
                       [start |-> 1, end |-> 3, text |-> <<"a", "\n">>] >>],
      [segments |-> << [start |-> 0, end |-> 2, text |-> <<" ", "h", " ", "i", " ">>] >>,
       language |-> "fr"],
      [segments |-> << [start |-> 2, end |-> 2, text |-> <<" ", "\n">>] >>,
       language |-> "en"] }

WhisperOutcomesWide ==
    WhisperOutcomes
    \cup {[mkdtemp |-> "ok", download |-> "ok", load_model |-> "ok",
           transcribe |-> [kind |-> "ok", result |-> r]] : r \in MoreTranscribeResults}

NoCaption == [kind |-> "-", segments |-> <<>>, exc |-> "", msg |-> <<>>]
NoWhisper == [mkdtemp |-> "-", download |-> "-", load_model |-> "-",
              transcribe |-> [kind |-> "-"]]

\* the record of a call: what was called, with which arguments, what the
\* upstream services did, the module global before it and what came back
CallRecord(fn, video_id, force_whisper, model_name, co, wo, r) ==
    [fn |-> fn, n |-> call.n + 1, video_id |-> video_id, force_whisper |-> force_whisper,
     model_name |-> model_name, co |-> co, wo |-> wo, before |-> whisper_model,
     ret |-> r.ret, raised |-> r.raised]

InitCalls ==
    /\ playlist = <<>>
    /\ videos_jsonl = NoFile
    /\ transcripts_jsonl = NoFile
    /\ comments_jsonl = NoFile
    /\ pc = "idle"
    /\ runs = 0
    /\ skip_transcripts = FALSE
    /\ skip_comments = FALSE
    /\ skip_whisper = FALSE
    /\ video_ids = <<>>
    /\ processed_metadata = {}
    /\ processed_transcripts = {}
    /\ processed_comments = {}
    /\ t_i = 1
    /\ c_i = 1
    /\ transcript = None
    /\ whisper_model = None
    /\ events = <<>>
    /\ base = [videos |-> 0, transcripts |-> 0, comments |-> 0]
    /\ prev = "idle"
    /\ call = NoCall
    /\ loads = 0
    /\ torn = {}

Pipeline == <<playlist, journals, pc, runs, args, loaded, t_i, c_i, transcript, base, prev,
              torn>>

\* get_transcript(video_id)
CallGetTranscript ==
    /\ call.n < MaxCalls
    /\ \E video_id \in Videos, co \in CaptionOutcomes :
         LET r == get_transcript(video_id, co)
         IN  /\ call' = CallRecord("get_transcript", video_id, FALSE, "base", co, NoWhisper, r)
             /\ events' = GetTranscriptEvents(r)
    /\ UNCHANGED <<Pipeline, whisper_model, loads>>

\* download_audio(video_id, temp_dir)
CallDownloadAudio ==
    /\ call.n < MaxCalls
    /\ \E video_id \in Videos, d \in DownloadOutcomes :
         LET r == download_audio(video_id, d)
         IN  /\ call' = CallRecord("download_audio", video_id, FALSE, "base", NoCaption,
                                   [NoWhisper EXCEPT !.download = d], r)
             /\ events' = <<"download_audio">>
    /\ UNCHANGED <<Pipeline, whisper_model, loads>>

\* get_whisper_model(model_name)
CallGetWhisperModel ==
    /\ call.n < MaxCalls
    /\ \E model_name \in ModelNames, load \in {"ok", "raise"} :
         LET r == get_whisper_model(whisper_model, model_name, load)
         IN  /\ call' = CallRecord("get_whisper_model", "v1", FALSE, model_name, NoCaption,
                                   [NoWhisper EXCEPT !.load_model = load], r)
             /\ events' = r.events
             /\ whisper_model' = r.model
             /\ loads' = loads + Count(r.events, "load_model")
    /\ UNCHANGED Pipeline

\* whisper_transcribe(video_id, model_name=model_name)
CallWhisperTranscribe ==
    /\ call.n < MaxCalls
    /\ \E video_id \in Videos, model_name \in ModelNames, wo \in WhisperOutcomesWide :
         LET r == whisper_transcribe(video_id, model_name, whisper_model, wo)
         IN  /\ call' = CallRecord("whisper_transcribe", video_id, TRUE, model_name,
                                   NoCaption, wo, r)
             /\ events' = r.events
             /\ whisper_model' = r.model
             /\ loads' = loads + Count(r.events, "load_model")
    /\ UNCHANGED Pipeline

\* get_transcript_with_fallback(video_id, force_whisper)
CallFallback ==
    /\ call.n < MaxCalls
    /\ \E video_id \in Videos, force_whisper \in BOOLEAN,
          co \in CaptionOutcomes, wo \in WhisperOutcomesWide :
         LET r == get_transcript_with_fallback(video_id, force_whisper, whisper_model, co, wo)
         IN  /\ call' = CallRecord("get_transcript_with_fallback", video_id, force_whisper,
                                   "base", co, wo, r)
             /\ events' = r.events
             /\ whisper_model' = r.model
             /\ loads' = loads + Count(r.events, "load_model")
    /\ UNCHANGED Pipeline

NextCalls ==
    \/ CallGetTranscript
    \/ CallDownloadAudio
    \/ CallGetWhisperModel
    \/ CallWhisperTranscribe
    \/ CallFallback

SpecCalls == InitCalls /\ [][NextCalls]_vars

(***************************************************************************)
(* Properties.                                                             *)
(***************************************************************************)
\* the lines of a journal that carry video_id v
LinesOf(file, v) ==
    {k \in 1..Len(file.lines) :
        /\ file.lines[k].text = "object"
        /\ "video_id" \in DOMAIN file.lines[k].members
        /\ file.lines[k].members.video_id = v}

\* the number of videos whose loop body the transcript stage of this run has finished
TranscriptsFinished ==
    CASE pc \in {"transcripts", "append"} -> t_i - 1
      [] pc \in {"comments", "done"} /\ ~skip_transcripts -> Len(videos_needing_transcripts)
      [] OTHER -> 0

IsTranscriptLine(line, v) ==
    /\ line.text = "object"
    /\ DOMAIN line.members \in {{"video_id", "transcript_source", "segments"},
                                {"video_id", "transcript_source", "language", "segments"}}
    /\ line.members.video_id = v
    /\ \/ line.members = FailedRecord(v)
       \/ line.members.transcript_source \in {"youtube_captions", "whisper"}

\* C1: while and after the transcript stage of a run, transcripts.jsonl is the
\* journal the run started with followed by exactly one line per video whose
\* loop body has finished, in loop order, each carrying that video's id and
\* being a success record or the failure marker; so one line, and one only,
\* is written for a video before the next one is started.
C1_OneLinePerVideo ==
    pc \in {"transcripts", "append", "comments", "done"} =>
        /\ Len(transcripts_jsonl.lines) = base.transcripts + TranscriptsFinished
        /\ \A k \in 1..TranscriptsFinished :
              IsTranscriptLine(transcripts_jsonl.lines[base.transcripts + k],
                               videos_needing_transcripts[k])

\* the second video is about to start after the first one failed in both the
\* caption fetch and the fallback, and its failure marker is in the journal
C1_Witness ==
    /\ pc = "transcripts"
    /\ t_i = 2
    /\ ~skip_whisper
    /\ Count(events, "whisper_transcribe") = 1
    /\ transcripts_jsonl.lines[Len(transcripts_jsonl.lines)].members
            = FailedRecord(videos_needing_transcripts[1])

CaptionSucceeded(ev) == Len(ev) >= 2 /\ ev[1] = "get_transcript" /\ ev[2] = "Success"

WhisperSucceeded(ev) ==
    /\ Count(ev, "whisper_transcribe") = 1
    /\ Count(ev, "transcribe") = 1
    /\ Count(ev, "KeyError") = 0

\* the orchestrator has just returned to main.py:156
OrchestratorReturned == pc = "append" /\ ~skip_whisper

\* C2 as stated: the orchestrator never returns None; when both the caption
\* fetch and the fallback fail its return value is the failed record.
C2_NeverNone ==
    OrchestratorReturned =>
        /\ transcript # None
        /\ (~CaptionSucceeded(events) /\ ~WhisperSucceeded(events)) =>
                transcript = FailedRecord(videos_needing_transcripts[t_i])

\* C2 amended: get_transcript_with_fallback returns None exactly when both the
\* caption fetch and the fallback fail, and otherwise one record of that video
\* with source youtube_captions or whisper; it never returns a failed record.
C2_NoneIffBothFail ==
    OrchestratorReturned =>
        /\ (transcript = None) <=> (~CaptionSucceeded(events) /\ ~WhisperSucceeded(events))
        /\ transcript # None =>
              /\ transcript.video_id = videos_needing_transcripts[t_i]
              /\ transcript.transcript_source \in {"youtube_captions", "whisper"}

\* the orchestrator returned None after a failed caption fetch and a failed download
C2_Witness ==
    /\ OrchestratorReturned
    /\ transcript = None
    /\ Count(events, "TerminalAbsence") = 1
    /\ Count(events, "download_audio:raise") = 1

\* the run before this one completed with all three stages enabled
PrevFull == prev = "done" /\ ~skip_transcripts /\ ~skip_comments

\* C3 as stated: a full run that follows a completed full run over the same
\* video list appends no line to any of the three journals.
C3_SecondRunAppendsNothing ==
    (PrevFull /\ pc \in {"metadata", "transcripts", "append", "comments", "done"})
        => Lengths = base

\* the lines of the journal as it was when this run scanned it
JournalAtStart == SubSeq(transcripts_jsonl.lines, 1, base.transcripts)

\* the video the transcript stage is working on
CurrentVideo == videos_needing_transcripts[t_i]

\* C4: a run makes no call and no append for a video that had a line in
\* transcripts.jsonl when the run started: neither the video being attempted
\* nor any line the run has appended carries such a video_id.
C4_NoWorkForRecordedVideo ==
    /\ pc \in {"transcripts", "append"} =>
          LinesOf([lines |-> JournalAtStart], CurrentVideo) = {}
    /\ pc # "idle" =>
          \A k \in (base.transcripts + 1)..Len(transcripts_jsonl.lines) :
              LinesOf([lines |-> JournalAtStart],
                      transcripts_jsonl.lines[k].members.video_id) = {}

\* a later run over the same list has completed without touching transcripts.jsonl,
\* which already held a line for every video of the list
C4_Witness ==
    /\ runs = 2
    /\ pc = "done"
    /\ ~skip_transcripts
    /\ base.transcripts > 0
    /\ Len(transcripts_jsonl.lines) = base.transcripts
    /\ events = <<>>

\* C5 as stated, for its final state: once the re-run that follows an
\* interrupted run over the same discovered list has completed, every
\* discovered video has a line in transcripts.jsonl and none has more than one.
C5_ResumedRunOneLineEach ==
    (pc = "done" /\ prev = "interrupted" /\ ~skip_transcripts) =>
        \A v \in Elements(video_ids) : Cardinality(LinesOf(transcripts_jsonl, v)) = 1

NoDuplicates(seq) == Cardinality(Elements(seq)) = Len(seq)

\* the same, for a discovered list that names no video twice
ResumedRunOneLineEachOfDistinct ==
    (pc = "done" /\ prev = "interrupted" /\ ~skip_transcripts /\ NoDuplicates(video_ids)) =>
        \A v \in Elements(video_ids) : Cardinality(LinesOf(transcripts_jsonl, v)) = 1

\* C6 as stated, for one uninterrupted run over a fresh directory:
\* transcripts.jsonl holds at most one record per VideoId.
C6_AtMostOneRecord ==
    (runs = 1 /\ pc = "done") =>
        \A v \in Videos : Cardinality(LinesOf(transcripts_jsonl, v)) <= 1

\* C7 as stated: in every record of transcripts.jsonl, segments is empty if
\* and only if transcript_source is "failed".
C7_EmptyIffFailed ==
    \A k \in 1..Len(transcripts_jsonl.lines) :
        LET r == transcripts_jsonl.lines[k].members
        IN  (r.segments = <<>>) <=> (r.transcript_source = "failed")

KeepsLines(old, new) == IsPrefix(old.lines, new.lines) /\ (old.exists => new.exists)

\* C8: every step leaves the lines each journal held as a prefix of what it
\* holds afterwards: lines are only ever added at the end.
C8_AppendOnly ==
    [][/\ KeepsLines(videos_jsonl, videos_jsonl')
       /\ KeepsLines(transcripts_jsonl, transcripts_jsonl')
       /\ KeepsLines(comments_jsonl, comments_jsonl')]_vars

\* a second run has added lines after the lines the first run left in videos.jsonl
C8_Witness ==
    /\ runs = 2
    /\ base.videos > 0
    /\ Len(videos_jsonl.lines) > base.videos
    /\ Len(transcripts_jsonl.lines) > 0
    /\ Len(comments_jsonl.lines) > 0

\* a line json.loads accepts as a dict that holds video_id
WellFormed(line) == line.text = "object" /\ "video_id" \in DOMAIN line.members

WellFormedIds(file) ==
    IF file.exists
    THEN {l.members.video_id : l \in {x \in Elements(file.lines) : WellFormed(x)}}
    ELSE {}

\* C9 as stated: the scan never raises, and returns exactly the video_id
\* values of the well-formed lines, whatever malformed lines stand between
\* them, and the empty set when the file does not exist.
C9_ScanNeverRaises ==
    pc \in {"loaded", "raised"} =>
        /\ pc = "loaded"
        /\ processed_transcripts = WellFormedIds(transcripts_jsonl)

\* the same, for a journal every line of which decodes as UTF-8
ScanOfDecodableJournal ==
    (pc \in {"loaded", "raised"} /\ Count(transcripts_jsonl.lines, [text |-> "undecodable"]) = 0) =>
        /\ pc = "loaded"
        /\ processed_transcripts = WellFormedIds(transcripts_jsonl)

\* the attempt for the current video went through the orchestrator and its
\* caption fetch ended in terminal absence
TerminalAbsenceAttempt ==
    /\ ~skip_whisper
    /\ Len(events) >= 2
    /\ events[1] = "get_transcript"
    /\ events[2] = "TerminalAbsence"

Downloads(ev) ==
    Count(ev, "download_audio") + Count(ev, "download_audio:missing")
        + Count(ev, "download_audio:raise")

Before(ev, x, y) == \A i, j \in 1..Len(ev) : (ev[i] = x /\ ev[j] = y) => i < j

\* C10: after a caption fetch that ended in terminal absence the orchestrator
\* calls whisper_transcribe exactly once, as the very next call, makes at most
\* one download and one transcription (the download first), never pauses for
\* the cooldown and never calls the caption fetcher again.
C10_TerminalAbsenceFallsBackOnce ==
    TerminalAbsenceAttempt =>
        /\ Count(events, "whisper_transcribe") = 1
        /\ events[3] = "whisper_transcribe"
        /\ Count(events, "get_transcript") = 1
        /\ Count(events, "sleep60") = 0
        /\ Downloads(events) <= 1
        /\ Count(events, "transcribe") + Count(events, "transcribe:raise") <= 1
        /\ Before(events, "download_audio", "transcribe")
        /\ Count(events, "mkdtemp") = 1 => Downloads(events) = 1

\* a terminal absence was followed by a download and a transcription
C10_Witness ==
    /\ TerminalAbsenceAttempt
    /\ pc = "append"
    /\ Count(events, "download_audio") = 1
    /\ Count(events, "transcribe") = 1
    /\ transcript # None

(***************************************************************************)
(* The fallback chain, call by call.                                       *)
(***************************************************************************)
\* the last call ran the caption fetcher
FetchMade ==
    \/ call.fn = "get_transcript"
    \/ call.fn = "get_transcript_with_fallback" /\ ~call.force_whisper

\* the caption service answered with a transient block: one of the typed
\* errors, or an error of no recognised type whose text names one
TransientBlockFetch(co) ==
    /\ co.kind = "raise"
    /\ \/ co.exc \in {"TooManyRequests", "RequestBlocked", "IpBlocked"}
       \/ /\ co.exc = "Exception"
          /\ \/ Contains(co.msg, "429")
             \/ Contains(co.msg, "Too Many Requests")
             \/ Contains(co.msg, "blocked")

FallbackSteps ==
    {"whisper_transcribe", "mkdtemp", "mkdtemp:raise", "download_audio",
     "download_audio:missing", "download_audio:raise", "load_model", "load_model:raise",
     "transcribe", "transcribe:raise"}

\* C11: when the caption fetch ends in a transient block, the 60 s cooldown
\* runs exactly once, straight after the fetch, and every step of the fallback
\* comes after it.
C11_CooldownOnceBeforeFallback ==
    (FetchMade /\ TransientBlockFetch(call.co)) =>
        /\ Count(events, "sleep60") = 1
        /\ events[1] = "get_transcript"
        /\ events[3] = "sleep60"
        /\ \A k \in 1..Len(events) : events[k] \in FallbackSteps => k > 3

\* an error of no recognised type whose text says "blocked" was followed by
\* the cooldown and then by a fallback that produced a record
C11_Witness ==
    /\ call.fn = "get_transcript_with_fallback"
    /\ ~call.force_whisper
    /\ call.co.exc = "Exception"
    /\ Contains(call.co.msg, "blocked")
    /\ Count(events, "sleep60") = 1
    /\ Count(events, "transcribe") = 1
    /\ call.ret # None

TranscriptFunctions ==
    {"get_transcript", "download_audio", "whisper_transcribe", "get_transcript_with_fallback"}

\* C14: whatever the caption service, the download, the model load and the
\* transcription do, none of the four functions raises: each returns a value.
C14_NoFaultEscapes ==
    call.fn \in TranscriptFunctions => ~call.raised

\* the orchestrator returned None after an unrecognised caption error and a
\* fault of the fallback's very first step
C14_Witness ==
    /\ call.fn = "get_transcript_with_fallback"
    /\ ~call.force_whisper
    /\ call.co.exc = "Exception"
    /\ call.wo.mkdtemp = "raise"
    /\ call.ret = None
    /\ ~call.raised

\* C17: without force_whisper the caption fetcher is the first call, and when
\* it succeeds its record is returned and nothing of the fallback happens; with
\* force_whisper the caption fetcher is never called.
C17_CaptionsFirstUnlessForced ==
    call.fn = "get_transcript_with_fallback" =>
        /\ ~call.force_whisper =>
              /\ events[1] = "get_transcript"
              /\ Count(events, "get_transcript") = 1
        /\ (~call.force_whisper /\ call.co.kind = "ok") =>
              /\ call.ret = CaptionRecord(call.video_id, call.co.segments)
              /\ \A k \in 1..Len(events) : events[k] \notin FallbackSteps
              /\ whisper_model = call.before
        /\ call.force_whisper =>
              /\ Count(events, "get_transcript") = 0
              /\ events[1] = "whisper_transcribe"

\* a forced call went to Whisper although captions were there to be had
C17_Witness ==
    /\ call.fn = "get_transcript_with_fallback"
    /\ call.force_whisper
    /\ call.co.kind = "ok"
    /\ call.ret # None
    /\ call.ret.transcript_source = "whisper"

\* t is s without its leading and trailing whitespace
IsTrimOf(t, s) ==
    /\ \E i \in 0..Len(s) :
          /\ i + Len(t) <= Len(s)
          /\ \A k \in 1..Len(t) : t[k] = s[i + k]
          /\ \A k \in 1..i : s[k] \in {" ", "\t", "\n"}
          /\ \A k \in (i + Len(t) + 1)..Len(s) : s[k] \in {" ", "\t", "\n"}
    /\ t # <<>> => (t[1] \notin {" ", "\t", "\n"} /\ t[Len(t)] \notin {" ", "\t", "\n"})

\* the last call came back with a Whisper record
WhisperReturned ==
    /\ call.fn \in {"whisper_transcribe", "get_transcript_with_fallback"}
    /\ call.ret # None
    /\ call.ret.transcript_source = "whisper"

\* C19: a successful fallback returns a record tagged whisper, with the
\* detected language or "unknown", and one segment per span in the same order:
\* start unchanged, duration = end - start, text trimmed.
C19_WhisperRecordShape ==
    WhisperReturned =>
        LET result == call.wo.transcribe.result
            spans == result.segments
        IN  /\ DOMAIN call.ret = {"video_id", "transcript_source", "language", "segments"}
            /\ call.ret.video_id = call.video_id
            /\ call.ret.language =
                  (IF "language" \in DOMAIN result THEN result.language ELSE "unknown")
            /\ Len(call.ret.segments) = Len(spans)
            /\ \A k \in 1..Len(spans) :
                  /\ DOMAIN call.ret.segments[k] = {"start", "duration", "text"}
                  /\ call.ret.segments[k].start = spans[k].start
                  /\ call.ret.segments[k].duration = spans[k].end - spans[k].start
                  /\ IsTrimOf(call.ret.segments[k].text, spans[k].text)

\* two spans that came out of time order, without a language, were returned
\* in the order given
C19_Witness ==
    /\ WhisperReturned
    /\ Len(call.ret.segments) = 2
    /\ call.ret.segments[1].start > call.ret.segments[2].start
    /\ call.ret.language = "unknown"
    /\ call.ret.segments[1].text = <<"b">>

\* C20: the module global is None until a call loads it, whisper.load_model
\* returns at most once per process, whisper_transcribe and the orchestrator
\* load it only after a successful audio download, and once set the global is
\* what every later call gets, whatever size it asks for.
C20_LoadedOnceLazily ==
    /\ loads <= 1
    /\ loads = 0 <=> whisper_model = None
    /\ call.n = 0 => whisper_model = None
    /\ call.n > 0 =>
          /\ call.before # None => whisper_model = call.before
          /\ (call.fn = "get_whisper_model" /\ call.before # None) => call.ret = call.before
          /\ (call.fn \in {"whisper_transcribe", "get_transcript_with_fallback"}
                /\ whisper_model # call.before) =>
                /\ call.wo.download = "ok"
                /\ Count(events, "load_model") = 1
                /\ Before(events, "download_audio", "load_model")
                /\ Before(events, "load_model", "transcribe")
          /\ (call.fn \in {"get_transcript", "download_audio"}) => whisper_model = call.before

\* the second call asked for another size and got the instance of the first
C20_Witness ==
    /\ call.n = 2
    /\ call.fn = "get_whisper_model"
    /\ call.model_name = "tiny"
    /\ call.before = WhisperModelOf("base")
    /\ call.ret = WhisperModelOf("base")
    /\ loads = 1

(***************************************************************************)
(* The fallback chain inside the transcript stage.                         *)
(***************************************************************************)
\* the fallback of the current attempt created its scratch directory
ScratchCreated == Count(events, "mkdtemp") = 1

\* the audio file and the directory were deleted, in that order
ScratchRemoved ==
    /\ Count(events, "os.remove") = 1
    /\ Count(events, "os.rmdir") = 1
    /\ Before(events, "os.remove", "os.rmdir")
    /\ Before(events, "mkdtemp", "os.remove")

\* C12 as stated: once whisper_transcribe has returned, the directory made by
\* mkdtemp and the file in it are gone, on every exit path.
C12_NoScratchLeftBehind ==
    (pc = "append" /\ ScratchCreated) => ScratchRemoved

\* the exit paths on which the audio file was there do delete file and directory
ScratchRemovedWhenAudioExists ==
    (pc = "append" /\ ScratchCreated /\ Count(events, "download_audio") = 1)
        => ScratchRemoved

\* the download of the current attempt failed: it raised, or left no file
DownloadFailed(ev) ==
    Count(ev, "download_audio:raise") + Count(ev, "download_audio:missing") = 1

ModelSteps == {"load_model", "load_model:raise", "transcribe", "transcribe:raise"}

\* C13: when the captions are unavailable and the audio download fails, the
\* attempt ends without a model load or a transcription and leaves the module
\* global as it was, and the line appended for the video is the record
\* {video_id, transcript_source: "failed", segments: []} and nothing else.
C13_DownloadFailureGivesFailedRecord ==
    [][/\ (pc = "transcripts" /\ pc' = "append" /\ DownloadFailed(events')) =>
              /\ events'[2] # "Success"
              /\ \A k \in 1..Len(events') : events'[k] \notin ModelSteps
              /\ whisper_model' = whisper_model
              /\ loads' = loads
              /\ transcript' = None
       /\ (pc = "append" /\ DownloadFailed(events) /\ pc' # "interrupted") =>
              /\ transcripts_jsonl'.lines =
                    Append(transcripts_jsonl.lines,
                           [text |-> "object",
                            members |-> [video_id |-> CurrentVideo,
                                         transcript_source |-> "failed",
                                         segments |-> <<>>]])
              /\ transcripts_jsonl'.exists]_vars

\* the marker of a video without captions whose download left no file has
\* been appended
C13_Witness ==
    /\ Len(events) > 2
    /\ events[2] = "TerminalAbsence"
    /\ Count(events, "download_audio:missing") = 1
    /\ Count(events, "append_jsonl") = 1
    /\ transcripts_jsonl.lines # <<>>
    /\ transcripts_jsonl.lines[Len(transcripts_jsonl.lines)].members.transcript_source
          = "failed"

\* C16 as stated: a video whose caption fetch was transiently blocked is not
\* asked for captions again in the same attempt, and after its attempt the
\* next run's checkpoint scan does not name it, so that run attempts it again.
C16_BlockedStaysEligible ==
    [][(pc = "append" /\ events[2] = "TransientBlock" /\ pc' # "interrupted") =>
          /\ Count(events, "get_transcript") = 1
          /\ CurrentVideo \notin load_processed_videos(transcripts_jsonl').video_ids]_vars

\* the first half alone: one caption fetch per attempt, blocked or not
BlockedNotRetriedInAttempt ==
    (pc = "append" /\ events[2] = "TransientBlock") => Count(events, "get_transcript") = 1

\* the audio file was there and the model load or the transcription raised
FaultAfterDownload(ev) ==
    /\ Count(ev, "download_audio") = 1
    /\ Count(ev, "load_model:raise") + Count(ev, "transcribe:raise") = 1

\* C18: when the audio file was created and the model load or the
\* transcription raises, whisper_transcribe deletes the file and the scratch
\* directory after the fault and returns None, and the line appended for the
\* video is the failure marker.
C18_FaultAfterDownloadCleansUp ==
    [][(pc = "append" /\ FaultAfterDownload(events)) =>
          /\ ScratchRemoved
          /\ Before(events, "load_model:raise", "os.remove")
          /\ Before(events, "transcribe:raise", "os.remove")
          /\ Count(events, "transcribe") = 0
          /\ transcript = None
          /\ pc' # "interrupted" =>
                transcripts_jsonl' =
                    append_jsonl(transcripts_jsonl, FailedRecord(CurrentVideo))]_vars

\* the marker of a video whose transcription raised has been appended, after
\* the file and the directory were deleted
C18_Witness ==
    /\ Count(events, "transcribe:raise") = 1
    /\ Count(events, "os.rmdir") = 1
    /\ Count(events, "append_jsonl") = 1
    /\ Before(events, "os.rmdir", "append_jsonl")
    /\ transcripts_jsonl.lines # <<>>
    /\ transcripts_jsonl.lines[Len(transcripts_jsonl.lines)].members.transcript_source
          = "failed"

(***************************************************************************)
(* youtube_api.py: get_recent_videos over a paginated listing.             *)
(***************************************************************************)
MaxPages == 2
MaxItems == 2

\* the videoId of the n-th item of a listing
ItemIds == <<"v1", "v2", "v3", "v4", "v5", "v6", "v7", "v8", "v9">>

\* publishedAt of an item: on which side of the cutoff it lies
Ages == {"new", "old"}

\* how the service writes publishedAt: "2024-05-01T12:00:00Z", or without a zone
ZoneSuffixes == {"Z", ""}

\* what one playlistItems().list request can do: raise, or answer with items
PageAnswers == {[kind |-> "raise", items |-> <<>>]}
    \cup {[kind |-> "ok", items |-> a] : a \in SeqsUpTo(Ages, MaxItems)}

\* a listing, page by page; every page but the last carries a nextPageToken
Listings == SeqsUpTo(PageAnswers, MaxPages)

\* datetime.fromisoformat(s.replace('Z', '+00:00')): aware when s names a zone
fromisoformat(age, suffix) == [age |-> age, aware |-> suffix = "Z"]

\* datetime.now() - timedelta(days=years * 365): a naive datetime
cutoff_date == [age |-> "cutoff", aware |-> FALSE]

\* published_at < cutoff_date: TypeError between a naive and an aware datetime
LessThan(published_at, cutoff) ==
    IF published_at.aware # cutoff.aware
    THEN [raised |-> TRUE, value |-> FALSE]
    ELSE [raised |-> FALSE, value |-> published_at.age = "old"]

\* the number of items on the pages before page k
RECURSIVE ItemsBefore(_, _)
ItemsBefore(pages, k) ==
    IF k <= 1 THEN 0 ELSE ItemsBefore(pages, k - 1) + Len(pages[k - 1].items)

\* youtube_api.py:79-88: the items of page k from item j on
RECURSIVE ScanItems(_, _, _, _, _)
ScanItems(pages, suffix, k, j, ids) ==
    IF j > Len(pages[k].items) THEN [video_ids |-> ids, returned |-> FALSE]
    ELSE LET cmp == LessThan(fromisoformat(pages[k].items[j], suffix), cutoff_date)
         IN  IF cmp.raised \/ cmp.value
             THEN [video_ids |-> ids, returned |-> TRUE]
             ELSE ScanItems(pages, suffix, k, j + 1,
                            Append(ids, ItemIds[ItemsBefore(pages, k) + j]))

\* youtube_api.py:70-101: the loop over the pages from page k on
RECURSIVE ScanPages(_, _, _, _, _)
ScanPages(pages, suffix, k, ids, requests) ==
    IF k > Len(pages) THEN [video_ids |-> ids, requests |-> requests]
    ELSE IF pages[k].kind = "raise"
    THEN [video_ids |-> ids, requests |-> requests + 1]
    ELSE LET page == ScanItems(pages, suffix, k, 1, ids)
         IN  IF page.returned
             THEN [video_ids |-> page.video_ids, requests |-> requests + 1]
             ELSE ScanPages(pages, suffix, k + 1, page.video_ids, requests + 1)

\* get_recent_videos: the list returned and the number of page requests made
get_recent_videos(pages, suffix) ==
    IF pages = <<>> THEN [video_ids |-> <<>>, requests |-> 1]
    ELSE ScanPages(pages, suffix, 1, <<>>, 0)

InitRecent ==
    /\ playlist = <<>>
    /\ videos_jsonl = NoFile
    /\ transcripts_jsonl = NoFile
    /\ comments_jsonl = NoFile
    /\ pc = "idle"
    /\ runs = 0
    /\ skip_transcripts = FALSE
    /\ skip_comments = FALSE
    /\ skip_whisper = FALSE
    /\ video_ids = <<>>
    /\ processed_metadata = {}
    /\ processed_transcripts = {}
    /\ processed_comments = {}
    /\ t_i = 1
    /\ c_i = 1
    /\ transcript = None
    /\ whisper_model = None
    /\ events = <<>>
    /\ base = [videos |-> 0, transcripts |-> 0, comments |-> 0]
    /\ prev = "idle"
    /\ call \in {[fn |-> "get_recent_videos", n |-> 0, pages |-> l, suffix |-> z, requests |-> 0] :
                    l \in Listings, z \in ZoneSuffixes}
    /\ loads = 0
    /\ torn = {}

\* main.py:125 on its own
RecentStep ==
    /\ pc = "idle"
    /\ LET r == get_recent_videos(call.pages, call.suffix)
       IN  /\ video_ids' = r.video_ids
           /\ call' = [call EXCEPT !.n = 1, !.requests = r.requests]
    /\ pc' = "returned"
    /\ UNCHANGED <<playlist, journals, runs, args, processed_metadata, processed_transcripts,
                   processed_comments, t_i, c_i, transcript, whisper_model, events,
                   base, prev, loads, torn>>

NextRecent == RecentStep

SpecRecent == InitRecent /\ [][NextRecent]_vars

\* the ages of all items of a listing, in listing order
RECURSIVE AllAges(_)
AllAges(pages) ==
    IF pages = <<>> THEN <<>> ELSE Head(pages).items \o AllAges(Tail(pages))

\* the position of the first item older than the cutoff, or one past the end
FirstOld(ages) ==
    IF \E k \in 1..Len(ages) : ages[k] = "old"
    THEN CHOOSE k \in 1..Len(ages) :
            ages[k] = "old" /\ \A h \in 1..(k - 1) : ages[h] # "old"
    ELSE Len(ages) + 1

\* the page that holds item n of the listing
PageOf(pages, n) ==
    CHOOSE k \in 1..Len(pages) :
        ItemsBefore(pages, k) < n /\ n <= ItemsBefore(pages, k) + Len(pages[k].items)

NoPageFails(pages) == \A k \in 1..Len(pages) : pages[k].kind = "ok"

\* the video IDs the listing holds before its first too-old item
RecentIds(pages) ==
    [n \in 1..(FirstOld(AllAges(pages)) - 1) |-> ItemIds[n]]

\* the page requests needed to get there
RequestsNeeded(pages) ==
    IF pages = <<>> THEN 1
    ELSE IF FirstOld(AllAges(pages)) <= Len(AllAges(pages))
    THEN PageOf(pages, FirstOld(AllAges(pages)))
    ELSE Len(pages)

\* C15 as stated: for a listing whose page requests all succeed,
\* get_recent_videos returns exactly the IDs of the items before the first one
\* published before the cutoff, in listing order, and asks for no page after
\* the one that holds that item.
C15_ReturnsIdsBeforeFirstOld ==
    (pc = "returned" /\ NoPageFails(call.pages)) =>
        /\ video_ids = RecentIds(call.pages)
        /\ call.requests = RequestsNeeded(call.pages)

\* the same for timestamps that name no zone: there the claim holds
ReturnsIdsBeforeFirstOldOfNaive ==
    (pc = "returned" /\ NoPageFails(call.pages) /\ call.suffix = "") =>
        /\ video_ids = RecentIds(call.pages)
        /\ call.requests = RequestsNeeded(call.pages)

\* with timestamps in the service's format nothing is ever returned
NothingFromZonedListing ==
    (pc = "returned" /\ call.suffix = "Z") => video_ids = <<>>

(***************************************************************************)
(* The stages of scrape_channel, step by step.                             *)
(***************************************************************************)
LastLine(file) == file.lines[Len(file.lines)]

EndsWith(seq, tail) ==
    Len(seq) >= Len(tail) /\ SubSeq(seq, Len(seq) - Len(tail) + 1, Len(seq)) = tail

\* C21: the transcript stage takes the videos one after the other: when the
\* attempt for a video starts, the chain of the video before it is over, its
\* record is the last line of transcripts.jsonl and the 1.5 s pause has
\* followed the append; the attempt starts with the caption fetch, and the
\* append and the pause come after every step of the chain.
C21_TranscriptStageSequential ==
    [][/\ (pc = "transcripts" /\ pc' = "append") =>
              /\ t_i > 1 =>
                    /\ EndsWith(events, <<"append_jsonl", "sleep1.5">>)
                    /\ Count(events, "append_jsonl") = 1
                    /\ Count(events, "sleep1.5") = 1
                    /\ Len(transcripts_jsonl.lines) = base.transcripts + t_i - 1
                    /\ LastLine(transcripts_jsonl).members.video_id
                          = videos_needing_transcripts[t_i - 1]
              /\ events'[1] = "get_transcript"
              /\ Count(events', "get_transcript") = 1
              /\ Count(events', "append_jsonl") = 0
              /\ Count(events', "sleep1.5") = 0
              /\ t_i' = t_i
              /\ transcripts_jsonl' = transcripts_jsonl
       /\ (pc = "append" /\ pc' # "interrupted") =>
              /\ events' = events \o <<"append_jsonl", "sleep1.5">>
              /\ Len(transcripts_jsonl'.lines) = Len(transcripts_jsonl.lines) + 1
              /\ LastLine(transcripts_jsonl').members.video_id = CurrentVideo
              /\ pc' = "transcripts" => t_i' = t_i + 1]_vars

\* the second video's fallback has run to a transcription, after the first
\* video's record was appended and the pause was taken
C21_Witness ==
    /\ pc = "append"
    /\ t_i = 2
    /\ Count(events, "transcribe") = 1
    /\ Count(events, "sleep60") = 1
    /\ Len(transcripts_jsonl.lines) = base.transcripts + 1
    /\ LastLine(transcripts_jsonl).members.video_id = videos_needing_transcripts[1]

\* C22: the metadata stage appends to videos.jsonl only, the transcript stage
\* to transcripts.jsonl only, the comment stage to comments.jsonl only, and
\* starting a run writes nothing; with skip_transcripts the transcript journal
\* never changes and no caption fetch is made, with skip_comments the comment
\* journal never changes and no comment fetch is made.
C22_OneJournalPerStage ==
    [][/\ pc = "metadata" => UNCHANGED <<transcripts_jsonl, comments_jsonl>>
       /\ pc \in {"transcripts", "append"} => UNCHANGED <<videos_jsonl, comments_jsonl>>
       /\ pc = "comments" => UNCHANGED <<videos_jsonl, transcripts_jsonl>>
       /\ pc \in Stopped => UNCHANGED journals
       /\ skip_transcripts =>
              /\ transcripts_jsonl' = transcripts_jsonl
              /\ pc' \notin {"transcripts", "append"}
              /\ Count(events', "get_transcript") = 0
       /\ skip_comments =>
              /\ comments_jsonl' = comments_jsonl
              /\ pc' # "comments"
              /\ Count(events', "get_all_comments") = 0]_vars

\* a run with skip_transcripts has written metadata and comments and has left
\* no transcript journal
C22_Witness ==
    /\ pc = "done"
    /\ skip_transcripts
    /\ ~skip_comments
    /\ videos_jsonl.lines # <<>>
    /\ comments_jsonl.lines # <<>>
    /\ transcripts_jsonl = NoFile

\* C23: under skip_whisper an attempt is the caption fetch alone: no step of
\* the fallback runs, the model stays unloaded, and when the fetch returned no
\* record the failure marker is what gets appended.
C23_NoFallbackUnderSkipWhisper ==
    [][skip_whisper =>
          /\ (pc = "transcripts" /\ pc' = "append") =>
                /\ events'[1] = "get_transcript"
                /\ \A k \in 1..Len(events') : events'[k] \notin FallbackSteps
                /\ events'[2] # "Success" => transcript' = None
                /\ whisper_model' = None
                /\ loads' = 0
          /\ (pc = "append" /\ events[2] # "Success" /\ pc' # "interrupted") =>
                transcripts_jsonl' =
                    append_jsonl(transcripts_jsonl, FailedRecord(CurrentVideo))]_vars

\* under skip_whisper a transiently blocked video got its marker straight
\* after the cooldown
C23_Witness ==
    /\ skip_whisper
    /\ Len(events) = 5
    /\ events[2] = "TransientBlock"
    /\ events[3] = "sleep60"
    /\ events[4] = "append_jsonl"
    /\ LastLine(transcripts_jsonl).members.transcript_source = "failed"

\* the video the comment stage is working on
CommentVideo == videos_needing_comments[c_i]

\* a page request of the comment fetch that has just ended failed
PageFailed(ev) == Count(ev, "commentThreads.list:raise") = 1

\* C24 as stated: when a page request of get_all_comments fails, on the first
\* page or on a later one, the function returns the empty list, scrape_channel
\* appends exactly one placeholder with comment_text null for the video, and
\* the checkpoint scan of every later run names the video.
C24_PageFailureGivesPlaceholder ==
    [][(pc = "comments" /\ pc' # "interrupted" /\ PageFailed(events')) =>
          /\ pc' # "raised"
          /\ comments_jsonl' = append_jsonl(comments_jsonl, NoComments(CommentVideo))
          /\ CommentVideo \in load_processed_videos(comments_jsonl').video_ids]_vars

\* the same for the failures whose handler returns: a non-HTTP error, or an
\* HttpError whose error_details is empty or a list of dicts
HandledPageFailureGivesPlaceholder ==
    [][(pc = "comments" /\ pc' # "interrupted" /\ PageFailed(events')
          /\ Count(events', "AttributeError") = 0) =>
          /\ pc' # "raised"
          /\ comments_jsonl' = append_jsonl(comments_jsonl, NoComments(CommentVideo))
          /\ CommentVideo \in load_processed_videos(comments_jsonl').video_ids]_vars

\* C25: a video whose comment batch was cut short by an interrupt has a line
\* in comments.jsonl, so no later step fetches its comments or adds a line
\* for it: the comments that were not written stay unwritten.
C25_TornBatchIsNeverCompleted ==
    [][\A v \in torn :
          /\ LinesOf(comments_jsonl', v) = LinesOf(comments_jsonl, v)
          /\ v \in load_processed_videos(comments_jsonl).video_ids
          /\ pc' = "metadata" => v \in processed_comments'
          /\ pc' = "comments" => videos_needing_comments'[c_i'] # v]_vars

\* a later run over the same list has completed its comment stage and the
\* video still has only the one line written before the interrupt
C25_Witness ==
    /\ runs = 2
    /\ pc = "done"
    /\ ~skip_comments
    /\ prev = "interrupted"
    /\ \E v \in torn :
          /\ v \in Elements(video_ids)
          /\ Cardinality(LinesOf(comments_jsonl, v)) = 1
          /\ \E w \in Elements(video_ids) \ torn : LinesOf(comments_jsonl, w) # {}

\* the lines a metadata stage step has added
NewVideoLines ==
    SubSeq(videos_jsonl'.lines, Len(videos_jsonl.lines) + 1, Len(videos_jsonl'.lines))

\* C26: the metadata stage asks for every discovered video without a line in
\* videos.jsonl, run after run, and appends nothing but full metadata records:
\* a video it gets no metadata for gets no line and no marker. After an HTTP
\* error on the batch request each video of the batch is asked for alone, once;
\* after any other error, and after an answer, none is.
C26_NoMetadataMarker ==
    [][(pc = "metadata" /\ pc' # "interrupted") =>
          /\ \A v \in Elements(video_ids) :
                v \in Elements(videos_needing_metadata)
                    <=> v \notin load_processed_videos(videos_jsonl).video_ids
          /\ IsPrefix(videos_jsonl.lines, videos_jsonl'.lines)
          /\ Len(NewVideoLines) <= Len(videos_needing_metadata)
          /\ \A k \in 1..Len(NewVideoLines) :
                /\ NewVideoLines[k].members.video_id \in Elements(videos_needing_metadata)
                /\ NewVideoLines[k] = json_dumps(Metadata(NewVideoLines[k].members.video_id))
          /\ videos_needing_metadata # <<>> =>
                /\ events'[1] \in {"videos.list", "videos.list:HttpError", "videos.list:raise"}
                /\ Count(events', "get_video_metadata") =
                      (IF events'[1] = "videos.list:HttpError"
                       THEN Len(videos_needing_metadata) ELSE 0)
                /\ events'[1] = "videos.list:raise" => NewVideoLines = <<>>
          /\ videos_needing_metadata = <<>> => videos_jsonl' = videos_jsonl]_vars

\* a second run asked again for two videos the first run got no metadata for,
\* met an HTTP error on the batch and asked for each of them alone
C26_Witness ==
    /\ runs = 2
    /\ prev = "done"
    /\ base.videos = 0
    /\ Len(video_ids) = 2
    /\ Len(events) = 3
    /\ events[1] = "videos.list:HttpError"
    /\ Count(events, "get_video_metadata") = 2
    /\ Len(videos_jsonl.lines) = 1

====
